---------------------------- MODULE Spec2Model ----------------------------
(***************************************************************************)
(* Model of MetaAdsReporter (src/main.py): the name decoder parse_ad_name,  *)
(* the lead extractor calculate_leads_and_cpl, the paginated fetch          *)
(* get_ads_insights and the folds of generate_report and                    *)
(* generate_employee_summary.                                               *)
(*                                                                         *)
(* Strings are sequences of characters; a character is a one-character      *)
(* TLA+ string, and a CJK character is written by its code point ("U8AB2"   *)
(* is U+8AB2).  A Python dict is a sequence of <<key, value>> pairs in      *)
(* insertion order.  Decimal amounts (spend, cost per action) are counted   *)
(* in units of 1/Scale.                                                     *)
(***************************************************************************)
EXTENDS Integers, Sequences, FiniteSets, TLC

VARIABLES
    \* parse_ad_name
    ad_name, ad_name2, employee_parts, parsed, parsed2, ppc,
    \* calculate_leads_and_cpl and the record built from it
    ad_data, leads_cpl, ad_info, lpc,
    \* generate_report
    pc, ad_accounts, account_idx, page_no, all_ads, fetch_log,
    all_ads_data, report

vars == <<ad_name, ad_name2, employee_parts, parsed, parsed2, ppc,
          ad_data, leads_cpl, ad_info, lpc,
          pc, ad_accounts, account_idx, page_no, all_ads, fetch_log,
          all_ads_data, report>>

parseVars == <<ad_name, ad_name2, employee_parts, parsed, parsed2, ppc>>
leadVars == <<ad_data, leads_cpl, ad_info, lpc>>
reportVars == <<pc, ad_accounts, account_idx, page_no, all_ads, fetch_log,
                all_ads_data, report>>

(***************************************************************************)
(* Bounds of the model.                                                     *)
(***************************************************************************)
MaxEmployees == 2
MaxRecords == 3
MaxAccounts == 2
MaxPages == 2
MaxAds == 2

\* Python's None.
None == [none |-> TRUE]

\* F(v), with v computed once however often F uses it.
At(F(_), v) == CHOOSE r \in {F(x) : x \in {v}} : TRUE

(***************************************************************************)
(* Strings.                                                                 *)
(***************************************************************************)
\* The code point of a character that can occur in an employee part.
Ord(c) ==
    CASE c = "A" -> 65
      [] c = "B" -> 66
      [] OTHER -> 0

RECURSIVE Split(_, _)
\* str.split(d): the segments between the occurrences of d, at least one.
Split(s, d) ==
    IF s = <<>> THEN << <<>> >>
    ELSE At(LAMBDA r : IF Head(s) = d THEN << <<>> >> \o r
                       ELSE << <<Head(s)>> \o r[1] >> \o Tail(r),
            Split(Tail(s), d))

\* d in s, for a one-character d.
Contains(s, d) == \E i \in DOMAIN s : s[i] = d

\* str.endswith(m).
EndsWith(s, m) ==
    /\ Len(m) <= Len(s)
    /\ SubSeq(s, Len(s) - Len(m) + 1, Len(s)) = m

RECURSIVE Join(_, _)
\* d.join(parts).
Join(parts, d) ==
    IF parts = <<>> THEN <<>>
    ELSE IF Len(parts) = 1 THEN parts[1]
    ELSE parts[1] \o <<d>> \o Join(Tail(parts), d)

RECURSIVE StrLess(_, _)
\* Python's s < t on strings: by code point, a proper prefix first.
StrLess(s, t) ==
    IF t = <<>> THEN FALSE
    ELSE IF s = <<>> THEN TRUE
    ELSE IF Ord(Head(s)) # Ord(Head(t)) THEN Ord(Head(s)) < Ord(Head(t))
    ELSE StrLess(Tail(s), Tail(t))

RECURSIVE Insert(_, _)
\* x put in the sorted list l before the first element greater than it.
Insert(x, l) ==
    IF l = <<>> THEN <<x>>
    ELSE IF StrLess(x, Head(l)) THEN <<x>> \o l
    ELSE <<Head(l)>> \o Insert(x, Tail(l))

\* l with x put in its place, l computed once.
InsertInto(l, x) == At(LAMBDA v : Insert(x, v), l)

\* Variant of Sorted: the list in the order given.
SortedNoSort(l) == l

RECURSIVE Sorted(_)
\* sorted(l) on a list of strings (stable).
Sorted(l) ==
    IF l = <<>> THEN <<>>
    ELSE InsertInto(Sorted(SubSeq(l, 1, Len(l) - 1)), l[Len(l)])

(***************************************************************************)
(* parse_ad_name.                                                           *)
(***************************************************************************)
\* self.grade_rules, in the order written.
grade_rules == <<
    << <<"U8AB2", "U7A0B">>, <<"R">> >>,
    << <<"U6C42", "U8077">>, <<"R">> >>,
    << <<"U61F6", "U4EBA", "U5305">>, <<"N">> >>,
    << <<"U7D20", "U6750">>, <<"N">> >>,
    << <<"U512A", "U60E0">>, <<"R">> >>,
    << <<"U63A5", "U6848">>, <<"R">> >>,
    << <<"U8AEE", "U8A62">>, <<"R">> >>,
    << <<"U5C0F", "U904A", "U6232">>, <<"C">> >>,
    << <<"U8077", "U80FD", "U8B1B", "U5EA7">>, <<"S", "R">> >>,
    << <<"U8077", "U80FD", "U5DE5", "U4F5C", "U574A">>, <<"S", "R">> >>,
    << <<"U8EDF", "U5BE6", "U529B", "U8B1B", "U5EA7">>, <<"R">> >>,
    << <<"U8EDF", "U5BE6", "U529B", "U5DE5", "U4F5C", "U574A">>, <<"R">> >>,
    << <<"U57F9", "U8A13", "U71DF">>, <<"S", "R">> >>,
    << <<"U4E92", "U52D5", "U6E2C", "U9A57">>, <<"C">> >>,
    << <<"U5BE6", "U7FD2">>, <<"N">> >>,
    << <<"U81EA", "U4F86", "U5BA2">>, <<"S", "S", "R">> >>,
    << <<"U793E", "U7FA4", "U4E92", "U52D5">>, <<"C">> >> >>

\* dict: key in d.
DictHas(d, k) == \E i \in DOMAIN d : d[i][1] = k

\* dict: d[k], for a key of d.
DictAt(d, k) == d[CHOOSE i \in DOMAIN d : d[i][1] = k][2]

\* dict.get(k, default).
DictGet(d, k, default) == IF DictHas(d, k) THEN DictAt(d, k) ELSE default

\* dict: d[k] = v; a new key goes last, an old key keeps its place.
DictSet(d, k, v) ==
    IF DictHas(d, k)
    THEN [i \in DOMAIN d |-> IF d[i][1] = k THEN <<k, v>> ELSE d[i]]
    ELSE Append(d, <<k, v>>)

\* The ad_type of a name without an underscore in its middle part.
Unclassified == <<"U672A", "U5206", "U985E">>

\* Variant of grade_markers: the shortest marker first.
grade_markers_short_first ==
    << <<"D">>, <<"C">>, <<"N">>, <<"R">>, <<"S", "R">>, <<"S", "S", "R">> >>

\* The markers in the order the loop tries them.
grade_markers ==
    << <<"S", "S", "R">>, <<"S", "R">>, <<"R">>, <<"N">>, <<"C">>, <<"D">> >>

\* field of the middle part.
FieldOf(middle_part) ==
    IF Contains(middle_part, "_") THEN Split(middle_part, "_")[1]
    ELSE middle_part

\* ad_type of the middle part, before the grade marker is looked for.
AdTypeOf(middle_part) ==
    IF Contains(middle_part, "_")
    THEN LET field_and_type == Split(middle_part, "_") IN
         IF Contains(field_and_type[2], "-")
         THEN Split(field_and_type[2], "-")[1]
         ELSE field_and_type[2]
    ELSE Unclassified

\* grade = None: no marker found (no marker is the empty string).
NoGrade == <<>>

RECURSIVE FirstMarker(_, _)
\* The first marker of the list that ad_type ends with, NoGrade if there is none.
FirstMarker(ad_type, markers) ==
    IF markers = <<>> THEN NoGrade
    ELSE IF EndsWith(ad_type, Head(markers)) THEN Head(markers)
    ELSE FirstMarker(ad_type, Tail(markers))

\* Variant of DefaultGrade: the table is looked up by field.
DefaultGradeByField(field, ad_type) == DictGet(grade_rules, field, <<"D">>)

\* The grade of a name without a marker: self.grade_rules.get(ad_type, "D").
DefaultGrade(field, ad_type) == DictGet(grade_rules, ad_type, <<"D">>)

parse_ad_name(name) ==
    LET parts == Split(name, "/") IN
    IF Len(parts) < 3 THEN None
    ELSE
      LET page_name == parts[1]
          middle_part == parts[2]
          field == FieldOf(middle_part)
          ad_type0 == AdTypeOf(middle_part)
          marker == FirstMarker(ad_type0, grade_markers)
          ad_type == IF marker = NoGrade THEN ad_type0
                     ELSE SubSeq(ad_type0, 1, Len(ad_type0) - Len(marker))
          grade == IF marker = NoGrade THEN DefaultGrade(field, ad_type)
                   ELSE marker
          employee_part == parts[Len(parts)]
          employees == IF Contains(employee_part, "+")
                       THEN Split(employee_part, "+")
                       ELSE <<employee_part>>
      IN [page_name |-> page_name,
          field |-> field,
          ad_type |-> ad_type,
          grade |-> grade,
          employees |-> employees,
          employee_key |-> Join(Sorted(employees), "+")]


(***************************************************************************)
(* calculate_leads_and_cpl.                                                 *)
(***************************************************************************)
\* Amounts are counted in units of 1/Scale.
Scale == 2

Custom == "offsite_conversion.fb_pixel_custom"
Lead == "lead"

\* 'lead' in action_type.lower(), on the action types of the model.
ContainsLead(action_type) ==
    action_type \in {Lead, "offsite_conversion.fb_pixel_lead",
                     "onsite_conversion.lead_grouped", "leadgen_grouped"}

\* The test of the third loop: the other lead-like action types.
IsOtherLead(action_type) ==
    \/ action_type \in {"offsite_conversion.fb_pixel_lead",
                        "onsite_conversion.lead_grouped", "leadgen_grouped"}
    \/ (ContainsLead(action_type) /\ action_type # Lead)

RECURSIVE FirstOfType(_, _, _)
\* A loop that breaks at the first record of the type: its index from i on, 0
\* when the loop ends without a break.
FirstOfType(recs, action_type, i) ==
    IF i > Len(recs) THEN 0
    ELSE IF recs[i].action_type = action_type THEN i
    ELSE FirstOfType(recs, action_type, i + 1)

RECURSIVE FirstPositiveOfType(_, _, _)
\* A loop that breaks at the first record of the type whose value is > 0.
FirstPositiveOfType(recs, action_type, i) ==
    IF i > Len(recs) THEN 0
    ELSE IF recs[i].action_type = action_type /\ recs[i].value > 0 THEN i
    ELSE FirstPositiveOfType(recs, action_type, i + 1)

RECURSIVE SumOtherLeads(_, _)
\* The third loop: leads += value over every other lead-like record.
SumOtherLeads(recs, i) ==
    IF i > Len(recs) THEN 0
    ELSE (IF IsOtherLead(recs[i].action_type) THEN recs[i].value ELSE 0)
         + SumOtherLeads(recs, i + 1)

\* Variant of LeadsFromActions: the lead records are scanned whenever the
\* custom scan leaves leads = 0.
LeadsFromActionsLeadAfterZeroCustom(actions) ==
    LET ci == FirstOfType(actions, Custom, 1)
        li == FirstOfType(actions, Lead, 1)
        leads1 == IF ci > 0 THEN actions[ci].value ELSE 0
        leads2 == IF leads1 = 0 /\ li > 0 THEN actions[li].value ELSE leads1
    IN IF leads2 = 0 THEN SumOtherLeads(actions, 1) ELSE leads2

\* The three loops over actions: custom, lead when no custom record was found,
\* the other lead-like records when leads is still 0.
LeadsFromActions(actions) ==
    LET ci == FirstOfType(actions, Custom, 1)
        custom_conversion_found == ci > 0
        leads1 == IF custom_conversion_found THEN actions[ci].value ELSE 0
        li == FirstOfType(actions, Lead, 1)
        leads2 == IF ~custom_conversion_found /\ li > 0
                  THEN actions[li].value ELSE leads1
    IN IF leads2 = 0 THEN SumOtherLeads(actions, 1) ELSE leads2

\* The two loops over cost_per_action_type, entered with leads = 0.
LeadsFromCosts(spend, cost_per_actions) ==
    LET ci == FirstPositiveOfType(cost_per_actions, Custom, 1)
        leads1 == IF ci > 0 THEN spend \div cost_per_actions[ci].value ELSE 0
        li == FirstPositiveOfType(cost_per_actions, Lead, 1)
    IN IF leads1 = 0
       THEN (IF li > 0 THEN spend \div cost_per_actions[li].value ELSE 0)
       ELSE leads1

\* Variant of CplOf: the quotient rounded up.
CplOfRoundedUp(spend, leads) ==
    IF leads > 0 THEN (spend + Scale * leads - 1) \div (Scale * leads) ELSE 0

\* cpl = spend / leads if leads > 0, returned as int(cpl).
CplOf(spend, leads) ==
    IF leads > 0 THEN spend \div (Scale * leads) ELSE 0

calculate_leads_and_cpl(ad) ==
    LET spend == ad.spend
        leads0 == LeadsFromActions(ad.actions)
        leads == IF leads0 = 0
                 THEN LeadsFromCosts(spend, ad.cost_per_action_type)
                 ELSE leads0
    IN [leads |-> leads, cpl |-> CplOf(spend, leads)]

\* The record generate_report builds from one raw insight of an account.
AdInfo(account, ad) ==
    LET lc == calculate_leads_and_cpl(ad) IN
    [account_name |-> account.name,
     account_id |-> account.id,
     ad_name |-> ad.ad_name,
     ad_id |-> ad.ad_id,
     spend |-> ad.spend \div Scale,
     leads |-> lc.leads,
     cpl |-> IF lc.cpl > 0 THEN lc.cpl ELSE 0]


(***************************************************************************)
(* generate_employee_summary.                                               *)
(***************************************************************************)
\* The key of an employee's name in an entry (U+54E1 U+5DE5).
EmployeeLabel == <<"U54E1", "U5DE5">>

\* The end of a grade key (U+7B49 U+7D1A U+82B1 U+8CBB).
GradeKeySuffix == <<"U7B49", "U7D1A", "U82B1", "U8CBB">>

\* f"{grade}" followed by the end of a grade key.
GradeKey(grade) == grade \o GradeKeySuffix

\* The six grade keys, in the order an entry is created and formatted with.
GradeKeys ==
    << GradeKey(<<"S", "S", "R">>), GradeKey(<<"S", "R">>), GradeKey(<<"R">>),
       GradeKey(<<"N">>), GradeKey(<<"C">>), GradeKey(<<"D">>) >>

\* The entry made for an employee_key seen for the first time.
NewEmployeeStats(employee_key) ==
    << <<EmployeeLabel, employee_key>> >>
    \o [i \in DOMAIN GradeKeys |-> <<GradeKeys[i], <<>> >>]

NewFieldStats == [total_spend |-> 0, total_leads |-> 0, ads_count |-> 0]

\* One turn of the first loop for a record whose name parses to p: st.stats
\* is employee_stats, st.raised says that an earlier turn raised KeyError.
AddParsedToEmployeeStats(st, ad, p) ==
    IF st.raised \/ p = None THEN st
    ELSE
      LET employee_key == p.employee_key
          stats1 == IF ~DictHas(st.stats, employee_key)
                    THEN DictSet(st.stats, employee_key,
                                 NewEmployeeStats(employee_key))
                    ELSE st.stats
          entry == DictAt(stats1, employee_key)
          grade_key == GradeKey(p.grade)
      IN IF ~DictHas(entry, grade_key)
         THEN [raised |-> TRUE, stats |-> stats1]
         ELSE
           LET fields == DictAt(entry, grade_key)
               fields1 == IF ~DictHas(fields, p.field)
                          THEN DictSet(fields, p.field, NewFieldStats)
                          ELSE fields
               fs == DictAt(fields1, p.field)
               fs1 == [total_spend |-> fs.total_spend + ad.spend,
                       total_leads |-> fs.total_leads + ad.leads,
                       ads_count |-> fs.ads_count + 1]
           IN [raised |-> FALSE,
               stats |-> DictSet(stats1, employee_key,
                           DictSet(entry, grade_key,
                             DictSet(fields1, p.field, fs1)))]

\* Variant of AddToEmployeeStats: no "if not parsed: continue", so a name
\* that does not parse raises.
AddToEmployeeStatsWithoutSkip(st, ad) ==
    At(LAMBDA p : IF p = None THEN [raised |-> TRUE, stats |-> st.stats]
                  ELSE AddParsedToEmployeeStats(st, ad, p),
       parse_ad_name(ad.ad_name))

\* One turn of the first loop.
AddToEmployeeStats(st, ad) ==
    At(LAMBDA p : AddParsedToEmployeeStats(st, ad, p), parse_ad_name(ad.ad_name))

RECURSIVE EmployeeStats(_, _)
\* employee_stats after the first n records.
EmployeeStats(ads_data, n) ==
    IF n = 0 THEN [raised |-> FALSE, stats |-> <<>>]
    ELSE At(LAMBDA st : AddToEmployeeStats(st, ads_data[n]),
            EmployeeStats(ads_data, n - 1))

\* The values of f"{field},average_cpl:{..},total_spend:{..},total_leads:{..},
\* ads_count:{..}", in that order.
FormatCell(field, field_stats) ==
    [field |-> field,
     average_cpl |-> IF field_stats.total_leads > 0
                     THEN field_stats.total_spend \div field_stats.total_leads
                     ELSE 0,
     total_spend |-> field_stats.total_spend,
     total_leads |-> field_stats.total_leads,
     ads_count |-> field_stats.ads_count]

RECURSIVE FormatFields(_)
\* grade_data: a cell for every field whose ads_count is > 0.
FormatFields(fields) ==
    IF fields = <<>> THEN <<>>
    ELSE (IF fields[1][2].ads_count > 0
          THEN <<FormatCell(fields[1][1], fields[1][2])>> ELSE <<>>)
         \o FormatFields(Tail(fields))

\* Variant of FormatEmployee: a grade without cells gets no key.
FormatEmployeeWithoutEmptyGrades(stats) ==
    << <<EmployeeLabel, DictAt(stats, EmployeeLabel)>> >>
    \o SelectSeq([i \in DOMAIN GradeKeys |->
                    <<GradeKeys[i], FormatFields(DictAt(stats, GradeKeys[i]))>>],
                 LAMBDA e : e[2] # <<>>)

\* formatted_stats of one employee: the name, then the six grade keys.
FormatEmployee(stats) ==
    << <<EmployeeLabel, DictAt(stats, EmployeeLabel)>> >>
    \o [i \in DOMAIN GradeKeys |->
          <<GradeKeys[i],
            IF DictHas(stats, GradeKeys[i])
            THEN FormatFields(DictAt(stats, GradeKeys[i])) ELSE <<>> >>]

\* The second loop: an entry of summary_list for every employee.
FormatEmployeeStats(st) ==
    [raised |-> st.raised,
     summary_list |-> IF st.raised THEN <<>>
                      ELSE [i \in DOMAIN st.stats |->
                              FormatEmployee(st.stats[i][2])]]

generate_employee_summary(ads_data) ==
    At(LAMBDA st : FormatEmployeeStats(st),
       EmployeeStats(ads_data, Len(ads_data)))

(***************************************************************************)
(* generate_report.                                                         *)
(***************************************************************************)
RECURSIVE SumOf(_, _, _)
\* sum(ad[key] for ad in ads), key being "spend" or "leads".
SumOf(ads, key, n) ==
    IF n = 0 THEN 0
    ELSE SumOf(ads, key, n - 1)
         + (IF key = "spend" THEN ads[n].spend ELSE ads[n].leads)

\* Variant of AddToByAccount: only the first record of a name is counted.
AddToByAccountKeepingFirst(by_account, ad) ==
    IF ~DictHas(by_account, ad.account_name)
    THEN DictSet(by_account, ad.account_name,
                 [account_id |-> ad.account_id, total_spend |-> ad.spend,
                  total_leads |-> ad.leads, ads_count |-> 1])
    ELSE by_account

\* One turn of the by_account loop.
AddToByAccount(by_account, ad) ==
    LET d == IF ~DictHas(by_account, ad.account_name)
             THEN DictSet(by_account, ad.account_name,
                          [account_id |-> ad.account_id, total_spend |-> 0,
                           total_leads |-> 0, ads_count |-> 0])
             ELSE by_account
        a == DictAt(d, ad.account_name)
    IN DictSet(d, ad.account_name,
               [a EXCEPT !.total_spend = @ + ad.spend,
                         !.total_leads = @ + ad.leads,
                         !.ads_count = @ + 1])

RECURSIVE ByAccount(_, _)
\* by_account after the first n records.
ByAccount(ads, n) ==
    IF n = 0 THEN <<>>
    ELSE At(LAMBDA d : AddToByAccount(d, ads[n]), ByAccount(ads, n - 1))

\* The second loop over by_account: average_cpl is added to every entry.
FinishByAccount(by_account) ==
    [i \in DOMAIN by_account |->
       <<by_account[i][1],
         [account_id |-> by_account[i][2].account_id,
          total_spend |-> by_account[i][2].total_spend,
          total_leads |-> by_account[i][2].total_leads,
          ads_count |-> by_account[i][2].ads_count,
          average_cpl |-> IF by_account[i][2].total_leads > 0
                          THEN by_account[i][2].total_spend
                               \div by_account[i][2].total_leads
                          ELSE 0]>>]

\* by_account of the report.
ByAccountOf(ads) ==
    At(LAMBDA d : FinishByAccount(d), ByAccount(ads, Len(ads)))

\* What generate_report returns for all_ads_data (the time and the period,
\* which echo the clock and the arguments, are left out); raised when
\* generate_employee_summary raises.
BuildReport(ads) ==
    LET total_spend == SumOf(ads, "spend", Len(ads))
        total_leads == SumOf(ads, "leads", Len(ads))
        avg_cpl == IF total_leads > 0 THEN total_spend \div total_leads ELSE 0
        by_account == ByAccountOf(ads)
        es == generate_employee_summary(ads)
    IN [raised |-> es.raised,
        summary |-> [total_spend |-> total_spend,
                     total_leads |-> total_leads,
                     average_cpl |-> avg_cpl,
                     total_ads |-> Len(ads),
                     total_accounts |-> Len(by_account)],
        by_account |-> by_account,
        employee_summary |-> es.summary_list,
        ads_detail |-> ads]

_empty_report ==
    [raised |-> FALSE,
     summary |-> [total_spend |-> 0, total_leads |-> 0, average_cpl |-> 0,
                  total_ads |-> 0, total_accounts |-> 0],
     by_account |-> <<>>,
     employee_summary |-> <<>>,
     ads_detail |-> <<>>]

(***************************************************************************)
(* Inputs.                                                                  *)
(***************************************************************************)
\* The sequences over S of length k.
SeqsOfLen(S, k) == [1..k -> S]

\* The sequences over S of length lo..hi.
SeqsBetween(S, lo, hi) == UNION {SeqsOfLen(S, k) : k \in lo..hi}

\* The permutations of 1..n.
Perms(n) == {p \in [1..n -> 1..n] : \A i, j \in 1..n : p[i] = p[j] => i = j}

\* l rearranged by the permutation p.
Permuted(l, p) == [i \in DOMAIN l |-> l[p[i]]]

PageNames == { <<"P">> }

\* Two keys of grade_rules (U+8AB2 U+7A0B: R, U+5BE6 U+7FD2: N) and one
\* string that is no key.
Fields == { <<"U8AB2", "U7A0B">>, <<"U5BE6", "U7FD2">>, <<"x">> }

TypeBases == { <<>>, <<"t">>, <<"S">>, <<"U8AB2", "U7A0B">> }

TypeSuffixes ==
    { <<>>, <<"S", "S", "R">>, <<"S", "R">>, <<"R">>, <<"N">>, <<"C">>, <<"D">> }

TypeTails == { <<>>, <<"-", "R">>, <<"_", "R">> }

MiddleParts ==
    Fields \cup
    { f \o <<"_">> \o b \o m \o t :
        f \in Fields, b \in TypeBases, m \in TypeSuffixes, t \in TypeTails }

EmployeeNames == { <<"A">>, <<"B">>, <<"A", "B">> }

EmployeeLists == SeqsBetween(EmployeeNames, 1, MaxEmployees)

\* A name of 1 to 4 segments whose last segment lists the employees.
BuildName(shape, page, middle, employees) ==
    LET last == Join(employees, "+") IN
    Join(CASE shape = 1 -> <<last>>
           [] shape = 2 -> <<middle, last>>
           [] shape = 3 -> <<page, middle, last>>
           [] OTHER -> <<page, middle, <<"z">>, last>>, "/")

ActionRecords ==
    {[action_type |-> t, value |-> v] : t \in {Custom, Lead}, v \in {0, 1, 2}}
    \cup {[action_type |-> "offsite_conversion.fb_pixel_lead", value |-> v] :
            v \in {1, 2}}
    \cup {[action_type |-> "leadgen_grouped", value |-> 1],
          [action_type |-> "link_click", value |-> 2]}

\* Costs per action in units of 1/Scale.
CostRecords ==
    {[action_type |-> t, value |-> v] : t \in {Custom, Lead}, v \in {0, 3, 4}}
    \cup {[action_type |-> "link_click", value |-> 3]}

\* Spend in units of 1/Scale.
SpendValues == {0, 3, 9}

(***************************************************************************)
(* The states in which a part of the program is not running.                *)
(***************************************************************************)
ParseIdle ==
    /\ ad_name = <<>> /\ ad_name2 = <<>> /\ employee_parts = <<>>
    /\ parsed = None /\ parsed2 = None /\ ppc = "idle"

LeadsIdle ==
    /\ ad_data = None /\ leads_cpl = None /\ ad_info = None /\ lpc = "idle"

ReportIdle ==
    /\ pc = "idle" /\ ad_accounts = <<>> /\ account_idx = 0 /\ page_no = 0
    /\ all_ads = <<>> /\ fetch_log = <<>> /\ all_ads_data = <<>>
    /\ report = None

(***************************************************************************)
(* parse_ad_name on a name and on the same name with its employees in      *)
(* another order.                                                           *)
(***************************************************************************)
InitParse ==
    /\ \E shape \in 1..4, page \in PageNames, middle \in MiddleParts,
          es \in EmployeeLists :
          \E p \in Perms(Len(es)) :
            /\ employee_parts = es
            /\ ad_name = BuildName(shape, page, middle, es)
            /\ ad_name2 = BuildName(shape, page, middle, Permuted(es, p))
    /\ parsed = None /\ parsed2 = None /\ ppc = "input"
    /\ LeadsIdle /\ ReportIdle

ParseAdName ==
    /\ ppc = "input"
    /\ parsed' = parse_ad_name(ad_name)
    /\ parsed2' = parse_ad_name(ad_name2)
    /\ ppc' = "parsed"
    /\ UNCHANGED <<ad_name, ad_name2, employee_parts>>
    /\ UNCHANGED <<leadVars, reportVars>>

NextParse == ParseAdName

SpecParse == InitParse /\ [][NextParse]_vars

(***************************************************************************)
(* calculate_leads_and_cpl on one raw insight, and the record built from it.*)
(***************************************************************************)
TheAccount == [id |-> "act_1", name |-> "X"]

InitLeads ==
    /\ \E na \in 0..MaxRecords : \E nc \in 0..(MaxRecords - na) :
         \E sp \in SpendValues, as \in SeqsOfLen(ActionRecords, na),
            cs \in SeqsOfLen(CostRecords, nc) :
           ad_data = [ad_name |-> <<"n">>, ad_id |-> "1", spend |-> sp,
                      actions |-> as, cost_per_action_type |-> cs]
    /\ leads_cpl = None /\ ad_info = None /\ lpc = "input"
    /\ ParseIdle /\ ReportIdle

CalculateLeadsAndCpl ==
    /\ lpc = "input"
    /\ leads_cpl' = calculate_leads_and_cpl(ad_data)
    /\ lpc' = "calculated"
    /\ UNCHANGED <<ad_data, ad_info>>
    /\ UNCHANGED <<parseVars, reportVars>>

BuildAdInfo ==
    /\ lpc = "calculated"
    /\ ad_info' = AdInfo(TheAccount, ad_data)
    /\ lpc' = "built"
    /\ UNCHANGED <<ad_data, leads_cpl>>
    /\ UNCHANGED <<parseVars, reportVars>>

NextLeads == CalculateLeadsAndCpl \/ BuildAdInfo

SpecLeads == InitLeads /\ [][NextLeads]_vars

(***************************************************************************)
(* generate_report: get_ad_accounts, then get_ads_insights page by page for *)
(* every account, then the folds.                                           *)
(***************************************************************************)
AccountNames == {"X", "Y"}

\* The lists of n accounts, with ids act_1 .. act_n; the first is named X.
AccountLists(n) ==
    {[i \in 1..n |-> [id |-> <<"act", i>>, name |-> nm[i]]] :
        nm \in {f \in [1..n -> AccountNames] : n > 0 => f[1] = "X"}}

\* The raw insights the pages of the model are made of: a name with two
\* employees out of order and a marked type, a name with one employee and no
\* type, and a name parse_ad_name does not decode.
ReportInsights ==
    { [ad_name |-> BuildName(3, <<"P">>,
                     <<"U8AB2", "U7A0B", "_", "t", "R">>, << <<"B">>, <<"A">> >>),
       ad_id |-> "1", spend |-> 9,
       actions |-> <<[action_type |-> Lead, value |-> 2]>>,
       cost_per_action_type |-> <<>>],
      [ad_name |-> BuildName(3, <<"P">>, <<"x">>, << <<"A">> >>),
       ad_id |-> "2", spend |-> 3,
       actions |-> <<>>,
       cost_per_action_type |-> <<[action_type |-> Lead, value |-> 3]>>],
      [ad_name |-> <<"b", "a", "d">>,
       ad_id |-> "3", spend |-> 9,
       actions |-> <<[action_type |-> Custom, value |-> 1]>>,
       cost_per_action_type |-> <<>>] }

Init ==
    /\ pc = "start" /\ ad_accounts = <<>> /\ account_idx = 0 /\ page_no = 0
    /\ all_ads = <<>> /\ fetch_log = <<>> /\ all_ads_data = <<>>
    /\ report = None
    /\ ParseIdle /\ LeadsIdle

\* get_ad_accounts: the accounts of a 200 response, an exception otherwise.
GetAdAccounts ==
    /\ pc = "start"
    /\ \/ /\ pc' = "raised"
          /\ UNCHANGED <<ad_accounts, account_idx, page_no, fetch_log, report>>
       \/ \E n \in 0..MaxAccounts : \E accounts \in AccountLists(n) :
            /\ ad_accounts' = accounts
            /\ fetch_log' = [i \in 1..n |->
                               [received |-> <<>>, failed |-> FALSE,
                                got_page |-> FALSE]]
            /\ IF n = 0
               THEN /\ report' = _empty_report
                    /\ pc' = "done"
                    /\ UNCHANGED <<account_idx, page_no>>
               ELSE /\ pc' = "fetch"
                    /\ account_idx' = 1
                    /\ page_no' = 1
                    /\ UNCHANGED report
    /\ UNCHANGED <<all_ads, all_ads_data>>
    /\ UNCHANGED <<parseVars, leadVars>>

\* get_ads_insights has returned ads for the current account: its records are
\* appended; after the last account the report is built.
InsightsReturned(ads) ==
    LET account == ad_accounts[account_idx]
        data == all_ads_data \o [i \in DOMAIN ads |-> AdInfo(account, ads[i])]
    IN /\ all_ads_data' = data
       /\ all_ads' = <<>>
       /\ IF account_idx = Len(ad_accounts)
          THEN /\ report' = BuildReport(all_ads_data')
               /\ pc' = IF report'.raised THEN "raised" ELSE "done"
               /\ page_no' = 0
               /\ UNCHANGED account_idx
          ELSE /\ account_idx' = account_idx + 1
               /\ page_no' = 1
               /\ UNCHANGED <<pc, report>>

\* One request of get_ads_insights answered with status 200.
FetchPageOk ==
    /\ pc = "fetch"
    /\ \E ads_data \in SeqsBetween(ReportInsights, 0,
                         MaxAds - Len(all_ads_data) - Len(all_ads)),
          has_next \in BOOLEAN :
         /\ has_next => page_no < MaxPages
         /\ fetch_log' = [fetch_log EXCEPT ![account_idx] =
                            [@ EXCEPT !.received = @ \o ads_data,
                                      !.got_page = TRUE]]
         /\ IF has_next
            THEN /\ all_ads' = all_ads \o ads_data
                 /\ page_no' = page_no + 1
                 /\ UNCHANGED <<pc, account_idx, all_ads_data, report>>
            ELSE InsightsReturned(all_ads \o ads_data)
    /\ UNCHANGED ad_accounts
    /\ UNCHANGED <<parseVars, leadVars>>

\* Variant of FetchPageFailed: the pages fetched before are dropped.
FetchPageFailedDroppingPages ==
    /\ pc = "fetch"
    /\ fetch_log' = [fetch_log EXCEPT ![account_idx].failed = TRUE]
    /\ InsightsReturned(<<>>)
    /\ UNCHANGED ad_accounts
    /\ UNCHANGED <<parseVars, leadVars>>

\* One request of get_ads_insights answered with another status: the loop
\* breaks and all_ads is returned as it is.
FetchPageFailed ==
    /\ pc = "fetch"
    /\ fetch_log' = [fetch_log EXCEPT ![account_idx].failed = TRUE]
    /\ InsightsReturned(all_ads)
    /\ UNCHANGED ad_accounts
    /\ UNCHANGED <<parseVars, leadVars>>

Next == GetAdAccounts \/ FetchPageOk \/ FetchPageFailed

Spec == Init /\ [][Next]_vars

(***************************************************************************)
(* Properties of parse_ad_name (SpecParse).                                 *)
(***************************************************************************)
MarkerSet ==
    { <<"S", "S", "R">>, <<"S", "R">>, <<"R">>, <<"N">>, <<"C">>, <<"D">> }

HasMarkerSuffix(t) == \E m \in MarkerSet : EndsWith(t, m)

LongestMarkerSuffix(t) ==
    CHOOSE m \in MarkerSet :
        /\ EndsWith(t, m)
        /\ \A m2 \in MarkerSet : EndsWith(t, m2) => Len(m2) <= Len(m)

\* The number of slash-delimited segments of a name.
SegmentCount(name) == Cardinality({i \in DOMAIN name : name[i] = "/"}) + 1

\* The ad_type of a name of three segments or more, before a marker is removed.
RawAdType(name) == AdTypeOf(Split(name, "/")[2])

\* The entry of the table grade_rules for a string, D for a string without one.
GradeRuleOf(k) ==
    LET entries == {grade_rules[i] : i \in DOMAIN grade_rules} IN
    IF \E e \in entries : e[1] = k
    THEN (CHOOSE e \in entries : e[1] = k)[2]
    ELSE <<"D">>

\* C3 as stated: without a marker the grade is the entry of grade_rules for
\* the decoded field, D when the field has none.
C3_GradeByField ==
    (ppc = "parsed" /\ parsed # None /\ ~HasMarkerSuffix(RawAdType(ad_name)))
        => parsed.grade = GradeRuleOf(parsed.field)

\* C3 amended: without a marker the grade is the entry of grade_rules for the
\* decoded ad_type, D when the ad_type has none, and the ad_type is returned
\* whole.
C3_GradeByAdType ==
    (ppc = "parsed" /\ parsed # None /\ ~HasMarkerSuffix(RawAdType(ad_name)))
        => /\ parsed.grade = GradeRuleOf(RawAdType(ad_name))
           /\ parsed.ad_type = RawAdType(ad_name)

\* A name without a marker whose field has an entry in grade_rules that is not
\* the grade returned.
C3_Witness ==
    /\ ppc = "parsed" /\ parsed # None
    /\ ~HasMarkerSuffix(RawAdType(ad_name))
    /\ DictHas(grade_rules, parsed.field)
    /\ parsed.grade # GradeRuleOf(parsed.field)

\* The summary of two records that carry the two names.
SummaryOfBothNames ==
    generate_employee_summary(
        << [ad_name |-> ad_name, spend |-> 1, leads |-> 1],
           [ad_name |-> ad_name2, spend |-> 1, leads |-> 1] >>)

\* The employee parts in lexicographic order.
SortedEmployeeParts ==
    CHOOSE l \in {Permuted(employee_parts, p) :
                    p \in Perms(Len(employee_parts))} :
        \A i \in 1..(Len(l) - 1) : ~StrLess(l[i + 1], l[i])

\* C7: two names of three segments or more that differ only in the order of
\* the employees of the last segment get the same employee_key, the employees
\* sorted and joined by +, and one group in generate_employee_summary.
C7_EmployeeKeyOrderFree ==
    (ppc = "parsed" /\ SegmentCount(ad_name) >= 3)
        => /\ parsed # None /\ parsed2 # None
           /\ parsed.employee_key = parsed2.employee_key
           /\ parsed.employee_key = Join(SortedEmployeeParts, "+")
           /\ Len(SummaryOfBothNames.summary_list) = 1

\* Two different names, the first with its employees out of order.
C7_Witness ==
    /\ ppc = "parsed" /\ parsed # None /\ parsed2 # None
    /\ ad_name # ad_name2
    /\ parsed.employee_key # Join(parsed.employees, "+")
    /\ parsed.employee_key = Join(parsed2.employees, "+")

\* C9: when the ad_type ends with a marker, the grade is the longest marker
\* that is a suffix of it and the ad_type is returned without that suffix,
\* whatever grade_rules holds.
C9_LongestMarkerWins ==
    (ppc = "parsed" /\ parsed # None /\ HasMarkerSuffix(RawAdType(ad_name)))
        => /\ parsed.grade = LongestMarkerSuffix(RawAdType(ad_name))
           /\ parsed.ad_type \o parsed.grade = RawAdType(ad_name)

\* A type that ends with SSR, SR and R and, without the marker, has another
\* grade in grade_rules.
C9_Witness ==
    /\ ppc = "parsed" /\ parsed # None
    /\ parsed.grade = <<"S", "S", "R">>
    /\ DictHas(grade_rules, parsed.ad_type)
    /\ DictAt(grade_rules, parsed.ad_type) # parsed.grade

(***************************************************************************)
(* Properties of calculate_leads_and_cpl (SpecLeads).                       *)
(***************************************************************************)
HasType(recs, t) == \E i \in DOMAIN recs : recs[i].action_type = t

\* The value of the first record of a type.
FirstValueOf(recs, t) ==
    recs[CHOOSE i \in DOMAIN recs :
            /\ recs[i].action_type = t
            /\ \A j \in 1..(i - 1) : recs[j].action_type # t].value

HasPositive(recs, t) ==
    \E i \in DOMAIN recs : recs[i].action_type = t /\ recs[i].value > 0

\* The value of the first record of a type whose value is > 0.
FirstPositiveValueOf(recs, t) ==
    recs[CHOOSE i \in DOMAIN recs :
            /\ recs[i].action_type = t /\ recs[i].value > 0
            /\ \A j \in 1..(i - 1) :
                 ~(recs[j].action_type = t /\ recs[j].value > 0)].value

OtherLeadTypes ==
    {"offsite_conversion.fb_pixel_lead", "onsite_conversion.lead_grouped",
     "leadgen_grouped"}

RECURSIVE SumValuesAt(_, _)
\* The sum of the values of the records at the indices of S.
SumValuesAt(recs, S) ==
    IF S = {} THEN 0
    ELSE LET i == CHOOSE x \in S : TRUE IN
         recs[i].value + SumValuesAt(recs, S \ {i})

Rule1Leads ==
    IF HasType(ad_data.actions, Custom)
    THEN FirstValueOf(ad_data.actions, Custom) ELSE 0

Rule2Leads ==
    IF HasType(ad_data.actions, Lead)
    THEN FirstValueOf(ad_data.actions, Lead) ELSE 0

Rule3Leads ==
    SumValuesAt(ad_data.actions,
        {i \in DOMAIN ad_data.actions :
            ad_data.actions[i].action_type \in OtherLeadTypes})

\* The count derived from the first cost record of a type with a value > 0.
CostDerived(t) ==
    IF HasPositive(ad_data.cost_per_action_type, t)
    THEN ad_data.spend \div FirstPositiveValueOf(ad_data.cost_per_action_type, t)
    ELSE 0

Rule4Leads ==
    IF CostDerived(Custom) > 0 THEN CostDerived(Custom) ELSE CostDerived(Lead)

\* The first of four counts that is > 0, 0 when none is.
FirstPositive(r1, r2, r3, r4) ==
    IF r1 > 0 THEN r1 ELSE IF r2 > 0 THEN r2 ELSE IF r3 > 0 THEN r3
    ELSE IF r4 > 0 THEN r4 ELSE 0

\* C1 as stated: leads is the count of the first of the rules 1 to 4 that
\* yields a count > 0, and 0 when none does.
C1_FirstRuleWithLeads ==
    lpc # "input"
        => leads_cpl.leads =
             FirstPositive(Rule1Leads, Rule2Leads, Rule3Leads, Rule4Leads)

\* C1 amended: rule 2 is tried only when there is no custom record at all; a
\* custom record of value 0 hides the lead records and the cascade goes on
\* with rules 3 and 4. A custom record of value > 0 wins over a lead record.
C1_CascadeLeadOnlyWithoutCustom ==
    lpc # "input"
        => /\ leads_cpl.leads =
                FirstPositive(Rule1Leads,
                    IF HasType(ad_data.actions, Custom) THEN 0 ELSE Rule2Leads,
                    Rule3Leads, Rule4Leads)
           /\ Rule1Leads > 0 => leads_cpl.leads = Rule1Leads

\* A custom record of value 0 with a lead record of value > 0: the result comes
\* from rule 3.
C1_Witness ==
    /\ lpc = "calculated"
    /\ HasType(ad_data.actions, Custom) /\ Rule1Leads = 0
    /\ Rule2Leads > 0 /\ Rule3Leads > 0
    /\ leads_cpl.leads = Rule3Leads /\ leads_cpl.leads # Rule2Leads

\* C2 as stated: when rules 1 to 3 leave leads = 0 and a custom cost record has
\* a value > 0, leads is floor(spend / value) of the first such record, the lead
\* cost records being used only when there is no such record.
C2_CustomCostDecides ==
    (/\ lpc # "input"
     /\ Rule1Leads = 0
     /\ (HasType(ad_data.actions, Custom) \/ Rule2Leads = 0)
     /\ Rule3Leads = 0
     /\ HasPositive(ad_data.cost_per_action_type, Custom))
        => leads_cpl.leads = CostDerived(Custom)

\* C6: the record built from a raw insight has leads >= 0 and cpl >= 0, with
\* cpl = floor(spend / leads) on the record's truncated spend when leads > 0
\* and cpl = 0 when leads = 0.
C6_CplOfRecord ==
    lpc = "built"
        => /\ ad_info.leads >= 0
           /\ ad_info.cpl >= 0
           /\ ad_info.leads > 0 => ad_info.cpl = ad_info.spend \div ad_info.leads
           /\ ad_info.leads = 0 => ad_info.cpl = 0

\* A record built from a spend with a fraction, with several leads.
C6_Witness ==
    /\ lpc = "built"
    /\ ad_data.spend % Scale # 0
    /\ ad_info.leads > 1 /\ ad_info.cpl > 0

(***************************************************************************)
(* Properties of generate_report (Spec).                                    *)
(***************************************************************************)
RECURSIVE SumNat(_)
\* The sum of a sequence of numbers.
SumNat(q) == IF q = <<>> THEN 0 ELSE Head(q) + SumNat(Tail(q))

\* A name with the three segments the grammar asks for.
Decodable(r) == SegmentCount(r.ad_name) >= 3

Detail == report.ads_detail

\* The records of the report that carry an account name.
RecordsNamed(name) == {i \in DOMAIN Detail : Detail[i].account_name = name}

\* The cells of an entry of employee_summary, grade after grade.
CellsOfEntry(e) ==
    [k \in 1..(Len(e) - 1) |->
        SumNat([c \in DOMAIN e[k + 1][2] |-> e[k + 1][2][c].ads_count])]

\* The sum of ads_count over all cells of employee_summary.
AdsInCells ==
    SumNat([i \in DOMAIN report.employee_summary |->
              SumNat(CellsOfEntry(report.employee_summary[i]))])

\* generate_report raises only when get_ad_accounts does.
RaisedOnlyByGetAdAccounts ==
    pc = "raised" => (ad_accounts = <<>> /\ all_ads_data = <<>>)

\* C4: a record whose name does not decode is counted in the totals and in its
\* account's rollup and in no employee cell, and the fold does not abort: the
\* cells count the decodable records, total_ads counts all.
C4_UndecodableOnlyLeavesEmployees ==
    /\ RaisedOnlyByGetAdAccounts
    /\ pc = "done" =>
         /\ report.summary.total_ads = Len(Detail)
         /\ report.summary.total_spend =
              SumNat([i \in DOMAIN Detail |-> Detail[i].spend])
         /\ report.summary.total_leads =
              SumNat([i \in DOMAIN Detail |-> Detail[i].leads])
         /\ AdsInCells = Cardinality({i \in DOMAIN Detail : Decodable(Detail[i])})
         /\ \A i \in DOMAIN Detail :
              /\ DictHas(report.by_account, Detail[i].account_name)
              /\ DictAt(report.by_account, Detail[i].account_name).ads_count
                   = Cardinality(RecordsNamed(Detail[i].account_name))

\* A report with a record that decodes and one that does not.
C4_Witness ==
    /\ pc = "done"
    /\ \E i, j \in DOMAIN Detail : Decodable(Detail[i]) /\ ~Decodable(Detail[j])
    /\ AdsInCells > 0 /\ AdsInCells < report.summary.total_ads

\* The records of the report that carry the id of account a.
RecordsOfAccount(a) ==
    SelectSeq(Detail, LAMBDA r : r.account_id = ad_accounts[a].id)

\* The records made of the insights of the pages account a answered with 200.
RecordsReceived(a) ==
    [i \in DOMAIN fetch_log[a].received |->
        AdInfo(ad_accounts[a], fetch_log[a].received[i])]

\* C5 as stated: an account with a failed request, on the first page or on a
\* later one, contributes no record.
C5_FailedAccountContributesNothing ==
    pc = "done"
        => \A a \in DOMAIN ad_accounts :
             fetch_log[a].failed => RecordsOfAccount(a) = <<>>

\* C5 amended: a failed request does not make generate_report raise; the
\* account contributes the records of the pages fetched before the failed
\* request, none when the first request fails, and the other accounts
\* contribute all their records.
C5_FailedAccountKeepsEarlierPages ==
    /\ RaisedOnlyByGetAdAccounts
    /\ pc = "done" =>
         /\ \A a \in DOMAIN ad_accounts :
              /\ RecordsOfAccount(a) = RecordsReceived(a)
              /\ (fetch_log[a].failed /\ ~fetch_log[a].got_page)
                    => RecordsOfAccount(a) = <<>>
         /\ report.summary.total_ads =
              SumNat([a \in DOMAIN ad_accounts |-> Len(fetch_log[a].received)])

\* An account that fails after a page with insights, beside an account that
\* does not fail.
C5_Witness ==
    /\ pc = "done"
    /\ \E a, b \in DOMAIN ad_accounts :
         /\ fetch_log[a].failed /\ fetch_log[a].got_page
         /\ RecordsOfAccount(a) # <<>>
         /\ ~fetch_log[b].failed /\ RecordsOfAccount(b) # <<>>

\* The employee keys of the records that decode.
EmployeeKeysOfDetail ==
    {parse_ad_name(Detail[i].ad_name).employee_key :
        i \in {j \in DOMAIN Detail : Decodable(Detail[j])}}

\* The records of an employee key with a grade.
RecordsOfGrade(key, grade) ==
    {i \in DOMAIN Detail :
        /\ Decodable(Detail[i])
        /\ parse_ad_name(Detail[i].ad_name).employee_key = key
        /\ parse_ad_name(Detail[i].ad_name).grade = grade}

\* The six grades in the order of an entry.
SixGrades ==
    << <<"S", "S", "R">>, <<"S", "R">>, <<"R">>, <<"N">>, <<"C">>, <<"D">> >>

\* C8: employee_summary has one entry for every employee_key of the decodable
\* records; an entry holds the name and then the keys of SSR, SR, R, N, C, D in
\* that order, each with a list that is empty exactly when the employee has no
\* record of the grade; no record makes the fold fail.
C8_OneEntrySixGrades ==
    /\ RaisedOnlyByGetAdAccounts
    /\ pc = "done" =>
         LET es == report.employee_summary IN
         /\ {es[i][1][2] : i \in DOMAIN es} = EmployeeKeysOfDetail
         /\ Len(es) = Cardinality(EmployeeKeysOfDetail)
         /\ \A i \in DOMAIN es :
              /\ [k \in DOMAIN es[i] |-> es[i][k][1]]
                   = <<EmployeeLabel>> \o
                     [k \in 1..6 |-> SixGrades[k] \o GradeKeySuffix]
              /\ \A k \in 1..6 :
                   (es[i][k + 1][2] = <<>>)
                      <=> (RecordsOfGrade(es[i][1][2], SixGrades[k]) = {})

\* Two employees, one with a cell under R and none under D.
C8_Witness ==
    /\ pc = "done"
    /\ Len(report.employee_summary) = 2
    /\ \E i \in DOMAIN report.employee_summary :
         /\ report.employee_summary[i][4][2] # <<>>
         /\ report.employee_summary[i][7][2] = <<>>

\* C10: the entries of by_account add up to the totals of the summary, and
\* every record is counted in the one entry of its account name.
C10_ByAccountConservesTotals ==
    pc = "done" =>
      LET ba == report.by_account IN
      /\ SumNat([i \in DOMAIN ba |-> ba[i][2].total_spend])
           = report.summary.total_spend
      /\ SumNat([i \in DOMAIN ba |-> ba[i][2].total_leads])
           = report.summary.total_leads
      /\ SumNat([i \in DOMAIN ba |-> ba[i][2].ads_count])
           = report.summary.total_ads
      /\ report.summary.total_ads = Len(Detail)
      /\ \A i, j \in DOMAIN ba : ba[i][1] = ba[j][1] => i = j
      /\ \A i \in DOMAIN ba :
           ba[i][2].ads_count = Cardinality(RecordsNamed(ba[i][1]))
      /\ \A r \in DOMAIN Detail : \E i \in DOMAIN ba : ba[i][1] = Detail[r].account_name

\* Two accounts of one name, each with a record, rolled up in one entry.
C10_Witness ==
    /\ pc = "done"
    /\ Len(ad_accounts) = 2 /\ ad_accounts[1].name = ad_accounts[2].name
    /\ RecordsOfAccount(1) # <<>> /\ RecordsOfAccount(2) # <<>>
    /\ Len(report.by_account) = 1
    /\ report.by_account[1][2].ads_count = 2

=============================================================================
